---- MODULE Spec2Model ----
\* Model of src/app.py: the investment metric calculators, the scoring
\* function calculate_investment_score, and the Flask handlers
\* get_recommendations, compare_properties and add_property over the sqlite
\* tables properties, investor_profiles and recommendations.
EXTENDS Integers, Sequences, FiniteSets, TLC

VARIABLES properties, investor_profiles, recommendations, request, response,
          property, profile, result

vars == <<properties, investor_profiles, recommendations, request, response,
          property, profile, result>>

dbvars == <<properties, investor_profiles, recommendations, request, response>>

scorevars == <<property, profile, result>>

\* Python's None (a missing JSON key, a NULL column, dict.get without a hit).
None == <<>>

Some(x) == <<x>>

-----------------------------------------------------------------------------
\* Numbers. Python computes with floats; the model computes the same
\* expressions exactly, over fractions [n, d] in lowest terms with d > 0.

Abs(x) == IF x < 0 THEN -x ELSE x

RECURSIVE GCD(_, _)
GCD(a, b) == IF b = 0 THEN a ELSE GCD(b, a % b)

Rat(n, d) ==
    LET s == IF d < 0 THEN -1 ELSE 1
        g == GCD(Abs(n), Abs(d))
    IN  [n |-> (s * n) \div g, d |-> (s * d) \div g]

R(i) == [n |-> i, d |-> 1]

RAdd(a, b) == Rat(a.n * b.d + b.n * a.d, a.d * b.d)
RSub(a, b) == Rat(a.n * b.d - b.n * a.d, a.d * b.d)
RMul(a, b) == Rat(a.n * b.n, a.d * b.d)
RLe(a, b) == a.n * b.d <= b.n * a.d
RLt(a, b) == a.n * b.d < b.n * a.d
RMax(a, b) == IF RLt(a, b) THEN b ELSE a
RMin(a, b) == IF RLt(b, a) THEN b ELSE a

\* x / y, which raises ZeroDivisionError when y = 0.
ZeroDivisionError == [raised |-> "ZeroDivisionError"]

Div(x, y) == IF y = 0 THEN ZeroDivisionError ELSE Rat(x, y)

-----------------------------------------------------------------------------
\* Strings are sequences of one-character strings.

UpperChars == <<"A","B","C","D","E","F","G","H","I","J","K","L","M",
                "N","O","P","Q","R","S","T","U","V","W","X","Y","Z">>
LowerChars == <<"a","b","c","d","e","f","g","h","i","j","k","l","m",
                "n","o","p","q","r","s","t","u","v","w","x","y","z">>

\* str.lower()
to_lower ==
    [c \in {UpperChars[k] : k \in 1..Len(UpperChars)} |->
        LowerChars[CHOOSE k \in 1..Len(UpperChars) : UpperChars[k] = c]]

RECURSIVE lower(_)
lower(s) ==
    IF s = <<>> THEN <<>>
    ELSE <<IF Head(s) \in DOMAIN to_lower THEN to_lower[Head(s)] ELSE Head(s)>>
         \o lower(Tail(s))

\* str.strip()
RECURSIVE lstrip(_)
lstrip(s) == IF s # <<>> /\ Head(s) = " " THEN lstrip(Tail(s)) ELSE s

RECURSIVE rstrip(_)
rstrip(s) ==
    IF s # <<>> /\ s[Len(s)] = " " THEN rstrip(SubSeq(s, 1, Len(s) - 1)) ELSE s

strip(s) == rstrip(lstrip(s))

\* str.split(','): the pieces between the commas, empty pieces included.
RECURSIVE split(_)
split(s) ==
    IF \E i \in 1..Len(s) : s[i] = ","
    THEN LET i == CHOOSE i \in 1..Len(s) :
                    s[i] = "," /\ \A j \in 1..(i - 1) : s[j] # ","
         IN  <<SubSeq(s, 1, i - 1)>> \o split(SubSeq(s, i + 1, Len(s)))
    ELSE <<s>>

\* pref in property_loc (substring test; the empty string is in every string)
contains(hay, needle) ==
    \E i \in 1..(Len(hay) - Len(needle) + 1) :
        SubSeq(hay, i, i + Len(needle) - 1) = needle

-----------------------------------------------------------------------------
\* Investment calculation functions

calculate_rental_yield(annual_rental_income, property_price) ==
    IF property_price = 0 THEN ZeroDivisionError
    ELSE RMul(Rat(annual_rental_income, property_price), R(100))

calculate_net_roi(annual_rental_income, maintenance_cost, property_price) ==
    LET net_income == annual_rental_income - maintenance_cost
    IN  IF property_price = 0 THEN ZeroDivisionError
        ELSE RMul(Rat(net_income, property_price), R(100))

\* Lines 135-146: the price-fit component (25 points).
price_in_budget(prop, prof) ==
    prof.budget_min <= prop.price /\ prop.price <= prof.budget_max

price_ratio(prop, prof) ==
    IF prop.price > prof.budget_max
    THEN Div(prop.price, prof.budget_max)
    ELSE Div(prof.budget_min, prop.price)

price_fit(prop, prof) ==
    IF price_in_budget(prop, prof) THEN R(25)
    ELSE IF price_ratio(prop, prof) = ZeroDivisionError THEN ZeroDivisionError
    ELSE RMax(R(0), RSub(R(25), RMul(RSub(price_ratio(prop, prof), R(1)), R(50))))

price_reasoning(prop, prof) ==
    IF price_in_budget(prop, prof)
    THEN [about |-> "price", mark |-> "ok", text |-> "fits budget range"]
    ELSE IF prop.price > prof.budget_max
    THEN [about |-> "price", mark |-> "warn", text |-> "exceeds budget"]
    ELSE [about |-> "price", mark |-> "warn", text |-> "below minimum budget"]

\* Lines 148-160: risk alignment (20 points).
risk_match ==
    [Low    |-> [Low |-> 20, Medium |-> 10, High |-> 5],
     Medium |-> [Low |-> 15, Medium |-> 20, High |-> 15],
     High   |-> [Low |-> 10, Medium |-> 15, High |-> 20]]

risk_score(prop, prof) == risk_match[prof.risk_tolerance][prop.risk_level]

risk_reasoning(prop, prof) ==
    IF risk_score(prop, prof) = 20
    THEN [about |-> "risk", mark |-> "ok", text |-> "matches investor tolerance"]
    ELSE [about |-> "risk", mark |-> "warn", text |-> "partially matches tolerance"]

\* Lines 162-172: rental yield performance (30 points).
yield_score(prop, prof) ==
    LET rental_yield == calculate_rental_yield(prop.annual_rental_income, prop.price)
    IN  IF rental_yield = ZeroDivisionError THEN ZeroDivisionError
        ELSE IF RLe(R(prof.min_rental_yield), rental_yield)
        THEN LET yield_excess == RSub(rental_yield, R(prof.min_rental_yield))
             IN  RMin(R(30), RAdd(R(20), RMul(yield_excess, R(2))))
        ELSE LET yield_gap == RSub(R(prof.min_rental_yield), rental_yield)
             IN  RMax(R(0), RSub(R(20), RMul(yield_gap, R(3))))

yield_reasoning(prop, prof) ==
    LET rental_yield == calculate_rental_yield(prop.annual_rental_income, prop.price)
    IN  IF RLe(R(prof.min_rental_yield), rental_yield)
        THEN [about |-> "yield", mark |-> "ok", text |-> "exceeds minimum by",
              value |-> rental_yield,
              by |-> RSub(rental_yield, R(prof.min_rental_yield))]
        ELSE [about |-> "yield", mark |-> "warn", text |-> "below target by",
              value |-> rental_yield,
              by |-> RSub(R(prof.min_rental_yield), rental_yield)]

\* The ROI component computed from the gross income, maintenance cost left
\* out.
roi_score_gross_income(prop, prof) ==
    LET net_roi == calculate_rental_yield(prop.annual_rental_income, prop.price)
    IN  IF net_roi = ZeroDivisionError THEN ZeroDivisionError
        ELSE IF RLe(R(prof.min_roi), net_roi)
        THEN LET roi_excess == RSub(net_roi, R(prof.min_roi))
             IN  RMin(R(25), RAdd(R(15), RMul(roi_excess, R(2))))
        ELSE LET roi_gap == RSub(R(prof.min_roi), net_roi)
             IN  RMax(R(0), RSub(R(15), RMul(roi_gap, R(3))))

\* Lines 174-184: net ROI performance (25 points).
roi_score(prop, prof) ==
    LET net_roi == calculate_net_roi(prop.annual_rental_income,
                                     prop.maintenance_cost, prop.price)
    IN  IF net_roi = ZeroDivisionError THEN ZeroDivisionError
        ELSE IF RLe(R(prof.min_roi), net_roi)
        THEN LET roi_excess == RSub(net_roi, R(prof.min_roi))
             IN  RMin(R(25), RAdd(R(15), RMul(roi_excess, R(2))))
        ELSE LET roi_gap == RSub(R(prof.min_roi), net_roi)
             IN  RMax(R(0), RSub(R(15), RMul(roi_gap, R(3))))

roi_reasoning(prop, prof) ==
    LET net_roi == calculate_net_roi(prop.annual_rental_income,
                                     prop.maintenance_cost, prop.price)
    IN  IF RLe(R(prof.min_roi), net_roi)
        THEN [about |-> "roi", mark |-> "ok", text |-> "exceeds minimum by",
              value |-> net_roi, by |-> RSub(net_roi, R(prof.min_roi))]
        ELSE [about |-> "roi", mark |-> "warn", text |-> "below target by",
              value |-> net_roi, by |-> RSub(R(prof.min_roi), net_roi)]

\* Lines 186-195: location preference bonus (10 points). An empty or NULL
\* preferred_locations is falsy and skips the test.
location_bonus(prop, prof) ==
    IF prof.preferred_locations # <<>>
    THEN LET preferred_locs == split(prof.preferred_locations)
             property_loc == lower(prop.location)
         IN  IF \E k \in 1..Len(preferred_locs) :
                    contains(property_loc, lower(strip(preferred_locs[k])))
             THEN 10 ELSE 0
    ELSE 0

location_reasoning(prop, prof) ==
    IF location_bonus(prop, prof) = 10
    THEN <<[about |-> "location", mark |-> "ok", text |-> "matches preferences"]>>
    ELSE <<>>

\* The reasoning list with the location line put first.
reasoning_parts_location_first(prop, prof) ==
    location_reasoning(prop, prof)
    \o <<price_reasoning(prop, prof), risk_reasoning(prop, prof),
          yield_reasoning(prop, prof), roi_reasoning(prop, prof)>>

\* Lines 127-197: the score and the reasoning list, or the exception raised
\* on the way (the first division by zero met, at line 140 or line 163).
reasoning_parts(prop, prof) ==
    <<price_reasoning(prop, prof), risk_reasoning(prop, prof),
      yield_reasoning(prop, prof), roi_reasoning(prop, prof)>>
    \o location_reasoning(prop, prof)

\* The score without the final min(100, score).
calculate_investment_score_unclamped(prop, prof) ==
    LET fit == price_fit(prop, prof)
        yield == yield_score(prop, prof)
    IN  IF fit = ZeroDivisionError \/ yield = ZeroDivisionError
        THEN ZeroDivisionError
        ELSE [score |-> RAdd(RAdd(RAdd(RAdd(fit, R(risk_score(prop, prof))),
                                       yield),
                                  roi_score(prop, prof)),
                             R(location_bonus(prop, prof))),
              reasoning |-> reasoning_parts(prop, prof)]

calculate_investment_score(prop, prof) ==
    LET fit == price_fit(prop, prof)
        yield == yield_score(prop, prof)
        bonus == location_bonus(prop, prof)
    IN  IF fit = ZeroDivisionError \/ yield = ZeroDivisionError
        THEN ZeroDivisionError
        ELSE LET score == RAdd(RAdd(RAdd(RAdd(fit, R(risk_score(prop, prof))),
                                         yield),
                                    roi_score(prop, prof)),
                               R(bonus))
             IN  [score |-> RMin(R(100), score),
                  reasoning |-> reasoning_parts(prop, prof)]

-----------------------------------------------------------------------------
\* Scoring one property against one profile: the inputs
\* calculate_investment_score is called with, and the call.

Risks == {"Low", "Medium", "High"}

ScoreLocations == {<<"D","o","w","n","t","o","w","n"," ","C","i","t","y"," ","C","e","n","t","e","r">>,
                   <<"F","a","m","i","l","y"," ","D","i","s","t","r","i","c","t">>}

ScorePreferences == {<<>>,
                     <<"S","u","b","u","r","b","s",","," ","F","a","m","i","l","y"," ","D","i","s","t","r","i","c","t">>,
                     <<"D","o","w","n","t","o","w","n",",">>}

ScoreProperties ==
    [id : {1},
     location : ScoreLocations,
     price : {0, 50000, 450000, 1200000},
     size : {1200},
     annual_rental_income : {0, 36000, 500000},
     maintenance_cost : {4500, 60000},
     risk_level : Risks]

ScoreBudgets == {<<200000, 500000>>, <<0, 0>>, <<-200000, -100000>>,
                 <<450000, 450000>>}

ScoreProfiles ==
    {[budget_min |-> b[1], budget_max |-> b[2],
      risk_tolerance |-> t, preferred_locations |-> l,
      min_rental_yield |-> y, min_roi |-> r] :
        b \in ScoreBudgets, t \in Risks, l \in ScorePreferences,
        y \in {0, 5, 50}, r \in {-5, 3, 40}}

Pending == [pending |-> TRUE]

Score ==
    /\ result = Pending
    /\ result' = calculate_investment_score(property, profile)
    /\ UNCHANGED <<property, profile>>
    /\ UNCHANGED dbvars

-----------------------------------------------------------------------------
\* Lines 18-115: the tables after init_db on a fresh database. A table is the
\* sequence of its rows in rowid order; AUTOINCREMENT makes a row's id its
\* position.

Property(location, price, size, annual_rental_income, maintenance_cost, risk_level) ==
    [location |-> location, price |-> price, size |-> size,
     annual_rental_income |-> annual_rental_income,
     maintenance_cost |-> maintenance_cost, risk_level |-> risk_level]

Profile(budget_min, budget_max, risk_tolerance, preferred_locations, min_rental_yield, min_roi) ==
    [budget_min |-> budget_min, budget_max |-> budget_max,
     risk_tolerance |-> risk_tolerance,
     preferred_locations |-> preferred_locations,
     min_rental_yield |-> min_rental_yield, min_roi |-> min_roi]

sample_properties ==
    <<Property(<<"D","o","w","n","t","o","w","n"," ","C","i","t","y"," ","C","e","n","t","e","r">>,
               450000, 1200, 36000, 4500, "Low"),
      Property(<<"G","r","e","e","n"," ","V","a","l","l","e","y"," ","S","u","b","u","r","b","s">>,
               320000, 2000, 28800, 6400, "Low"),
      Property(<<"C","o","a","s","t","a","l"," ","B","e","a","c","h"," ","A","r","e","a">>,
               580000, 1500, 52200, 8700, "Medium"),
      Property(<<"U","n","i","v","e","r","s","i","t","y"," ","D","i","s","t","r","i","c","t">>,
               180000, 600, 18000, 2700, "Medium"),
      Property(<<"B","u","s","i","n","e","s","s"," ","D","i","s","t","r","i","c","t">>,
               750000, 3000, 75000, 15000, "Medium"),
      Property(<<"E","m","e","r","g","i","n","g"," ","N","e","i","g","h","b","o","r","h","o","o","d">>,
               220000, 1800, 21600, 8800, "High"),
      Property(<<"H","i","l","l","s","i","d","e"," ","E","s","t","a","t","e","s">>,
               1200000, 4500, 84000, 18000, "Low"),
      Property(<<"I","n","d","u","s","t","r","i","a","l"," ","Z","o","n","e">>,
               120000, 500, 12000, 3600, "High"),
      Property(<<"M","e","t","r","o"," ","C","e","n","t","e","r">>,
               380000, 1100, 38000, 5700, "Low"),
      Property(<<"F","a","m","i","l","y"," ","D","i","s","t","r","i","c","t">>,
               425000, 2200, 40800, 6800, "Low")>>

sample_profiles ==
    <<Profile(200000, 500000, "Low",
              <<"S","u","b","u","r","b","s",","," ","F","a","m","i","l","y"," ","D","i","s","t","r","i","c","t">>,
              5, 3),
      Profile(150000, 600000, "Medium",
              <<"D","o","w","n","t","o","w","n",","," ","M","e","t","r","o"," ","C","e","n","t","e","r">>,
              7, 5),
      Profile(100000, 400000, "High",
              <<"E","m","e","r","g","i","n","g",","," ","U","n","i","v","e","r","s","i","t","y">>,
              10, 8),
      Profile(500000, 1500000, "Low",
              <<"H","i","l","l","s","i","d","e",","," ","C","o","a","s","t","a","l">>,
              6, 4),
      Profile(150000, 350000, "High",
              <<"E","m","e","r","g","i","n","g",","," ","I","n","d","u","s","t","r","i","a","l">>,
              12, 10)>>

\* INSERT: the new row gets the next id.
insert_row(table, row) == Append(table, row @@ [id |-> Len(table) + 1])

RECURSIVE insert_rows(_, _)
insert_rows(table, rows) ==
    IF rows = <<>> THEN table
    ELSE insert_rows(insert_row(table, Head(rows)), Tail(rows))

init_db ==
    /\ properties = insert_rows(<<>>, sample_properties)
    /\ investor_profiles = insert_rows(<<>>, sample_profiles)
    /\ recommendations = <<>>

\* SELECT * FROM table WHERE id = ?  (fetchone: the row, or None)
fetchone(table, id) ==
    IF id \in 1..Len(table) THEN Some(table[id]) ELSE None

-----------------------------------------------------------------------------
\* API routes. A handler is one action: it reads the request, reads and
\* writes the tables, and leaves the response. An exception that escapes a
\* handler is answered by Flask with status 500; the connection is dropped
\* without commit, so nothing the handler wrote is kept.

Min(a, b) == IF a < b THEN a ELSE b
Max(a, b) == IF a < b THEN b ELSE a

\* seq[:n]
slice(seq, n) ==
    IF n >= 0 THEN SubSeq(seq, 1, Min(n, Len(seq)))
    ELSE SubSeq(seq, 1, Max(0, Len(seq) + n))

\* `if x:` for an optional integer: None and 0 are falsy.
truthy(x) == x # None /\ x[1] # 0

\* dict.get(key)
get(dict, key) == IF key \in DOMAIN dict THEN Some(dict[key]) ELSE None

Raised(exception) == [status |-> 500, raised |-> exception.raised]

\* Lines 350-370: one pass of the scoring loop.
recommendation_for(prop, prof) ==
    LET rental_yield == calculate_rental_yield(prop.annual_rental_income, prop.price)
        net_roi == calculate_net_roi(prop.annual_rental_income,
                                     prop.maintenance_cost, prop.price)
        prop_dict == prop @@ [rental_yield |-> rental_yield, net_roi |-> net_roi]
        scored == calculate_investment_score(prop, prof)
    IN  IF rental_yield = ZeroDivisionError THEN ZeroDivisionError
        ELSE IF scored = ZeroDivisionError THEN ZeroDivisionError
        ELSE [property |-> prop_dict, score |-> scored.score,
              reasoning |-> scored.reasoning,
              rental_yield |-> rental_yield, net_roi |-> net_roi]

\* Lines 349-370: the loop over the rows, appending to the list built so
\* far; an exception ends it.
RECURSIVE score_loop(_, _, _)
score_loop(props, prof, recs) ==
    IF props = <<>> THEN recs
    ELSE LET rec == recommendation_for(Head(props), prof)
         IN  IF rec = ZeroDivisionError THEN ZeroDivisionError
             ELSE score_loop(Tail(props), prof, Append(recs, rec))

\* The scoring loop leaving out the properties already recorded in the
\* history for this profile.
score_all_unrecorded(props, prof) ==
    LET seen == {recommendations[k].property_id : k \in
                    {k \in 1..Len(recommendations) :
                        recommendations[k].investor_profile_id =
                            (IF "id" \in DOMAIN prof THEN <<prof.id>> ELSE <<>>)}}
    IN  score_loop(SelectSeq(props, LAMBDA p : p.id \notin seen), prof, <<>>)

\* Lines 349-370: the list the loop builds, or the exception that ends it.
score_all(props, prof) == score_loop(props, prof, <<>>)

\* A sort that puts an entry before the entries of equal score.
RECURSIVE insert_by_score_unstable(_, _)
insert_by_score_unstable(sorted, x) ==
    IF sorted = <<>> THEN <<x>>
    ELSE IF RLe(Head(sorted).score, x.score) THEN <<x>> \o sorted
    ELSE <<Head(sorted)>> \o insert_by_score_unstable(Tail(sorted), x)

\* Line 373: list.sort(key=score, reverse=True). The sort is stable: of two
\* entries with the same score, the one that came first stays first.
RECURSIVE insert_by_score(_, _)
insert_by_score(sorted, x) ==
    IF sorted = <<>> THEN <<x>>
    ELSE IF RLt(Head(sorted).score, x.score) THEN <<x>> \o sorted
    ELSE <<Head(sorted)>> \o insert_by_score(Tail(sorted), x)

RECURSIVE sort_by_score(_)
sort_by_score(recs) ==
    IF recs = <<>> THEN <<>>
    ELSE insert_by_score(sort_by_score(SubSeq(recs, 1, Len(recs) - 1)),
                         recs[Len(recs)])

\* Lines 377-389: the history row of one recommendation.
history_row(prof, rec) ==
    [investor_profile_id |-> get(prof, "id"),
     property_id |-> rec.property.id,
     rental_yield |-> rec.rental_yield,
     net_roi |-> rec.net_roi,
     score |-> rec.score,
     reasoning |-> rec.reasoning]

\* Lines 377-389: the rows of the recommendations to record.
RECURSIVE history_rows(_, _)
history_rows(prof, recs) ==
    IF recs = <<>> THEN <<>>
    ELSE <<history_row(prof, Head(recs))>> \o history_rows(prof, Tail(recs))

\* The recommendations scored before the first property that raises.
RECURSIVE scored_before_raise(_, _)
scored_before_raise(props, prof) ==
    IF props = <<>> THEN <<>>
    ELSE LET rec == recommendation_for(Head(props), prof)
         IN  IF rec = ZeroDivisionError THEN <<>>
             ELSE <<rec>> \o scored_before_raise(Tail(props), prof)

\* The handler with the INSERT moved into the scoring loop and committed
\* there: the rows of the properties scored before the one that raised are kept.
recommend_recording_in_loop(data, prof) ==
    LET top_n == IF data.top_n = None THEN 5 ELSE data.top_n[1]
        done == scored_before_raise(properties, prof)
        top == slice(sort_by_score(done), top_n)
    IN  IF Len(done) < Len(properties)
        THEN [response |-> Raised(ZeroDivisionError),
              rows |-> history_rows(prof, top)]
        ELSE [response |-> [status |-> 200, profile |-> prof,
                            recommendations |-> top,
                            total_analyzed |-> Len(done)],
              rows |-> history_rows(prof, top)]

\* Lines 345-398: scoring, ranking, recording and answering for a resolved
\* profile. top_n is data.get('top_n', 5).
recommend(data, prof) ==
    LET top_n == IF data.top_n = None THEN 5 ELSE data.top_n[1]
        scored == score_all(properties, prof)
        ranked == sort_by_score(scored)
        top == slice(ranked, top_n)
    IN  IF scored = ZeroDivisionError
        THEN [response |-> Raised(ZeroDivisionError), rows |-> <<>>]
        ELSE [response |-> [status |-> 200, profile |-> prof,
                            recommendations |-> top,
                            total_analyzed |-> Len(ranked)],
              rows |-> history_rows(prof, top)]

\* Lines 323-398: the response and the rows to add to the history.
get_recommendations(data) ==
    IF truthy(data.profile_id)
    THEN LET found == fetchone(investor_profiles, data.profile_id[1])
         IN  IF found = None
             THEN [response |-> [status |-> 404, error |-> "Profile not found"],
                   rows |-> <<>>]
             ELSE recommend(data, found[1])
    ELSE IF data.custom_profile # None
    THEN recommend(data, data.custom_profile[1])
    ELSE [response |-> [status |-> 400,
                        error |-> "Profile ID or custom profile required"],
          rows |-> <<>>]

\* Lines 412-427: the entry of one stored property in the comparison.
compare_entry(prop) ==
    LET rental_yield == calculate_rental_yield(prop.annual_rental_income, prop.price)
        net_roi == calculate_net_roi(prop.annual_rental_income,
                                     prop.maintenance_cost, prop.price)
        price_per_sqft == Div(prop.price, prop.size)
        maintenance_ratio == Div(prop.maintenance_cost, prop.annual_rental_income)
    IN  IF \/ rental_yield = ZeroDivisionError
           \/ price_per_sqft = ZeroDivisionError
           \/ maintenance_ratio = ZeroDivisionError
        THEN ZeroDivisionError
        ELSE prop @@ [rental_yield |-> rental_yield, net_roi |-> net_roi,
                      price_per_sqft |-> price_per_sqft,
                      maintenance_ratio |-> RMul(maintenance_ratio, R(100))]

\* Lines 410-427: the entries of the ids that are stored, in request order.
RECURSIVE compare_entries(_)
compare_entries(property_ids) ==
    IF property_ids = <<>> THEN <<>>
    ELSE LET prop == fetchone(properties, Head(property_ids))
         IN  IF prop = None THEN compare_entries(Tail(property_ids))
             ELSE <<compare_entry(prop[1])>> \o compare_entries(Tail(property_ids))

\* Lines 401-431
compare_properties(data) ==
    IF data.property_ids = <<>>
    THEN [status |-> 400, error |-> "Property IDs required"]
    ELSE LET entries == compare_entries(data.property_ids)
         IN  IF \E i \in 1..Len(entries) : entries[i] = ZeroDivisionError
             THEN Raised(ZeroDivisionError)
             ELSE [status |-> 200, properties |-> entries]

-----------------------------------------------------------------------------
\* The requests the handlers are driven with.

MaxProperties == 11
MaxHistory == 1

\* Inline profiles: an ordinary one, and one whose budget_max is 0.
CustomProfile ==
    Profile(300000, 800000, "Medium", <<"D","o","w","n","t","o","w","n",","," ","C","o","a","s","t","a","l">>, 8, 6)

ZeroBudgetProfile ==
    Profile(0, 0, "Low", <<>>, 5, 3)

\* profile_id: none, 0, a stored id, the first id that is not stored.
RecommendationRequests ==
    [profile_id : {None, Some(0), Some(1), Some(Len(sample_profiles) + 1)},
     custom_profile : {None, Some(CustomProfile), Some(ZeroBudgetProfile)},
     top_n : {None, Some(0), Some(2), Some(-9)}]

CompareRequests ==
    [property_ids : {<<>>, <<1>>, <<99>>, <<2, 99, 1>>,
                     <<MaxProperties>>, <<MaxProperties, 99, 1>>}]

\* A property with price 0, one with no rental income, and a body that lacks
\* a required field.
NewProperties ==
    {Property(<<"V","a","c","a","n","t"," ","L","o","t">>, 0, 800, 0, 500, "High"),
     Property(<<"F","a","m","i","l","y"," ","D","i","s","t","r","i","c","t">>, 380000, 1000, 0, 3800, "Low"),
     [location |-> <<"N","o","w","h","e","r","e">>, size |-> 900]}

\* Lines 243-270
add_property ==
    \E data \in NewProperties :
        /\ Len(properties) < MaxProperties
        /\ request' = [route |-> "add_property", data |-> data]
        /\ IF {"location", "price", "size", "annual_rental_income",
               "maintenance_cost", "risk_level"} \subseteq DOMAIN data
           THEN /\ properties' = insert_row(properties, data)
                /\ response' = [status |-> 201, id |-> Len(properties) + 1]
           ELSE /\ response' = [status |-> 400, error |-> "Missing required fields"]
                /\ UNCHANGED properties
        /\ UNCHANGED <<investor_profiles, recommendations>>
        /\ UNCHANGED scorevars

\* Lines 322-398
recommendations_route ==
    /\ Len(recommendations) < MaxHistory
    /\ \E data \in RecommendationRequests :
        \E outcome \in {get_recommendations(data)} :
            /\ request' = [route |-> "recommendations", data |-> data]
            /\ response' = outcome.response
            /\ recommendations' = insert_rows(recommendations, outcome.rows)
            /\ UNCHANGED <<properties, investor_profiles>>
            /\ UNCHANGED scorevars

\* Lines 400-431
compare_route ==
    \E data \in CompareRequests :
        /\ request' = [route |-> "compare", data |-> data]
        /\ response' = compare_properties(data)
        /\ UNCHANGED <<properties, investor_profiles, recommendations>>
        /\ UNCHANGED scorevars

NoRequest == [route |-> "none"]

Init ==
    /\ init_db
    /\ request = NoRequest
    /\ response = NoRequest
    /\ property = Pending
    /\ profile = Pending
    /\ result = Pending

Next ==
    \/ add_property
    \/ recommendations_route
    \/ compare_route

Spec == Init /\ [][Next]_vars

\* calculate_investment_score on its own, over ScoreProperties x ScoreProfiles.
InitScore ==
    /\ init_db
    /\ request = NoRequest
    /\ response = NoRequest
    /\ property \in ScoreProperties
    /\ profile \in ScoreProfiles
    /\ result = Pending

NextScore == Score

SpecScore == InitScore /\ [][NextScore]_vars

-----------------------------------------------------------------------------
\* Properties of calculate_investment_score (checked under SpecScore).

Scored == result # Pending /\ result # ZeroDivisionError

\* C1: for every property with price > 0 and every profile, the score that
\* calculate_investment_score returns is at least 0 and at most 100.
C1_ScoreInRange ==
    (Scored /\ property.price > 0) =>
        RLe(R(0), result.score) /\ RLe(result.score, R(100))

\* A score whose five components add up to more than 100: in budget, full
\* risk match, a huge yield and ROI excess, and the location bonus.
C1_Witness ==
    /\ Scored
    /\ property.price > 0
    /\ price_in_budget(property, profile)
    /\ risk_score(property, profile) = 20
    /\ yield_score(property, profile) = R(30)
    /\ roi_score(property, profile) = R(25)
    /\ location_bonus(property, profile) = 10
    /\ result.score = R(100)

\* C9: for price > 0 and budget_min <= budget_max, the price-fit component is
\* 25 exactly when the price is within the budget; outside it is
\* max(0, 25 - (r - 1) * 50) with r the overage ratio, and so less than 25.
C9_PriceFit ==
    (Scored /\ property.price > 0 /\ profile.budget_min <= profile.budget_max) =>
        LET fit == price_fit(property, profile)
            inside == /\ profile.budget_min <= property.price
                      /\ property.price <= profile.budget_max
            r == IF property.price > profile.budget_max
                 THEN Rat(property.price, profile.budget_max)
                 ELSE Rat(profile.budget_min, property.price)
        IN  /\ (fit = R(25)) <=> inside
            /\ ~inside =>
                  /\ fit = RMax(R(0), RSub(R(25), RMul(RSub(r, R(1)), R(50))))
                  /\ RLt(fit, R(25))

Abouts(reasoning) == [i \in 1..Len(reasoning) |-> reasoning[i].about]

\* C10: the reasoning list holds one line each for price, risk, yield and
\* ROI, in that order, followed by one location line exactly when the
\* location bonus of 10 was awarded.
C10_ReasoningOrder ==
    Scored =>
        Abouts(result.reasoning) =
            IF location_bonus(property, profile) = 10
            THEN <<"price", "risk", "yield", "roi", "location">>
            ELSE <<"price", "risk", "yield", "roi">>

\* A scored property whose location matched: five lines.
C10_Witness ==
    /\ Scored
    /\ location_bonus(property, profile) = 10
    /\ Len(result.reasoning) = 5

\* The property and the profile of the worked example; the location and the
\* preferred locations are left free.
ExampleProperty ==
    /\ property.price = 450000
    /\ property.annual_rental_income = 36000
    /\ property.maintenance_cost = 4500
    /\ property.risk_level = "Low"

ExampleProfile ==
    /\ profile.budget_min = 200000
    /\ profile.budget_max = 500000
    /\ profile.risk_tolerance = "Low"
    /\ profile.min_rental_yield = 5
    /\ profile.min_roi = 3

\* C11: the property {price 450000, income 36000, maintenance 4500, Low}
\* scored against the profile {budget 200000..500000, Low, min yield 5,
\* min ROI 3} has rental_yield 8 and net_roi 7, components price fit 25,
\* risk 20, yield 26 and ROI 23, and a total of 94 when no preferred
\* location matches and of 100 (104 clamped) when one matches.
C11_WorkedExample ==
    (result # Pending /\ ExampleProperty /\ ExampleProfile) =>
        /\ result # ZeroDivisionError
        /\ calculate_rental_yield(property.annual_rental_income,
                                  property.price) = R(8)
        /\ calculate_net_roi(property.annual_rental_income,
                             property.maintenance_cost, property.price) = R(7)
        /\ price_fit(property, profile) = R(25)
        /\ risk_score(property, profile) = 20
        /\ yield_score(property, profile) = R(26)
        /\ roi_score(property, profile) = R(23)
        /\ location_bonus(property, profile) \in {0, 10}
        /\ location_bonus(property, profile) = 0 => result.score = R(94)
        /\ location_bonus(property, profile) = 10 =>
              /\ calculate_investment_score_unclamped(property, profile).score
                    = R(104)
              /\ result.score = R(100)

\* The example scored with a preferred location that is a substring of the
\* property's location: 104 clamped to 100.
C11_Witness ==
    /\ Scored
    /\ ExampleProperty
    /\ ExampleProfile
    /\ contains(lower(property.location),
                <<"f","a","m","i","l","y"," ","d","i","s","t","r","i","c","t">>)
    /\ contains(lower(profile.preferred_locations),
                <<"f","a","m","i","l","y"," ","d","i","s","t","r","i","c","t">>)
    /\ location_bonus(property, profile) = 10
    /\ result.score = R(100)

\* The example scored with no matching preferred location: 94.
C11_NoMatch ==
    /\ Scored
    /\ ExampleProperty
    /\ ExampleProfile
    /\ profile.preferred_locations # <<>>
    /\ location_bonus(property, profile) = 0
    /\ result.score = R(94)

-----------------------------------------------------------------------------
\* Properties of the handlers (checked under Spec).

IsRecommendations == request.route = "recommendations"

Recommended == IsRecommendations /\ response.status = 200

\* C2: when top_n is absent, zero or negative, the response holds exactly
\* min(5, catalog size) recommendations.
C2_DefaultTopN ==
    (/\ Recommended
     /\ (request.data.top_n = None \/ request.data.top_n[1] <= 0)) =>
        Len(response.recommendations) = Min(5, Len(properties))

\* C3: a request that fails leaves the history as it was, and rows are added
\* to the history only by a request in which every property of the catalog
\* was scored.
C3_HistoryAfterFullPass ==
    [][/\ (request'.route = "recommendations" /\ response'.status # 200) =>
              recommendations' = recommendations
       /\ recommendations' # recommendations =>
              /\ request'.route = "recommendations"
              /\ response'.status = 200
              /\ response'.total_analyzed = Len(properties)
              /\ \A i \in 1..Len(properties) : properties[i].price # 0]_vars

\* A request that raised while scoring, with nothing in the history.
C3_Witness ==
    /\ IsRecommendations
    /\ response.status = 500
    /\ recommendations = <<>>

\* C4: a profile id that resolves to no stored profile gives 404, a request
\* with neither profile id nor inline profile gives 400, and neither returns
\* recommendations.
C4_ProfileErrors ==
    IsRecommendations =>
        /\ (/\ request.data.profile_id # None
            /\ fetchone(investor_profiles, request.data.profile_id[1]) = None) =>
                /\ response.status = 404
                /\ "recommendations" \notin DOMAIN response
        /\ (request.data.profile_id = None /\ request.data.custom_profile = None) =>
                /\ response.status = 400
                /\ "recommendations" \notin DOMAIN response

\* C5: the recommendations returned are in descending order of score, and
\* entries of equal score are in catalog order.
C5_SortedStable ==
    Recommended =>
        \A i, j \in 1..Len(response.recommendations) :
            i < j =>
                LET a == response.recommendations[i]
                    b == response.recommendations[j]
                IN  /\ RLe(b.score, a.score)
                    /\ a.score = b.score => a.property.id < b.property.id

\* Two entries clamped to 100 next to each other in a response.
C5_Witness ==
    /\ Recommended
    /\ Len(response.recommendations) >= 2
    /\ response.recommendations[1].score = R(100)
    /\ response.recommendations[2].score = R(100)

\* C6: the request just answered, issued again on the tables as they are now
\* (with the rows it added to the history), returns the same recommendations:
\* the same entries with the same scores in the same order.
C6_SameAgain ==
    Recommended =>
        get_recommendations(request.data).response.recommendations =
            response.recommendations

\* A request that was answered with recommendations and added rows.
C6_Witness ==
    /\ Recommended
    /\ Len(response.recommendations) >= 2
    /\ Len(recommendations) >= 2

\* C7: a comparison over a non-empty id list returns the entries of the
\* stored ids, in request order, and never an error, for every stored
\* property (price > 0, size > 0), one with annual_rental_income 0 included.
C7_CompareSkipsUnknown ==
    (/\ request.route = "compare"
     /\ request.data.property_ids # <<>>
     /\ \A i \in 1..Len(properties) : properties[i].price > 0 /\ properties[i].size > 0) =>
        /\ response.status = 200
        /\ [i \in 1..Len(response.properties) |-> response.properties[i].id] =
               SelectSeq(request.data.property_ids,
                         LAMBDA id : id \in 1..Len(properties))

\* C8: with a property of price 0 in the catalog, a recommendation request
\* for a resolved profile is answered with a structured DataIntegrityError
\* (kind and message), not by an exception that escapes the handler.
C8_DataIntegrityError ==
    (/\ IsRecommendations
     /\ response.status \notin {400, 404}
     /\ \E i \in 1..Len(properties) : properties[i].price = 0) =>
        /\ "raised" \notin DOMAIN response
        /\ "kind" \in DOMAIN response
        /\ "message" \in DOMAIN response
        /\ response.kind = "DataIntegrityError"

====
